---- MODULE Spec2Model ----
(***************************************************************************)
(* A model of retrofeed: the feed classes of feeds.py (configuration,      *)
(* header building, refresh gating, the content builders, show()) and the  *)
(* sequencer of retrofeed.py (construct_sequence, main).                   *)
(*                                                                         *)
(* Representation.  A Python dict or object is a function on its keys.     *)
(* A Python str is a TLA+ string.  None is the empty tuple; a field that   *)
(* holds "None or a str" holds <<>> or the one-element tuple <<s>>, a      *)
(* field that holds "None or a list" holds <<>> or <<list>>, and a header  *)
(* is <<>> or the 3-tuple (left marker, title, right marker).  Time is     *)
(* counted in whole minutes since the program started.                     *)
(***************************************************************************)
EXTENDS Integers, Sequences, FiniteSets, TLC

VARIABLES
    cfg,            \* the parsed config.yaml: base, sequence, one block per feed name
    feeds,          \* the heap: instance id -> feed object
    instances,      \* construct_sequence's dict: feed name -> instance id
    feed_sequence,  \* the playlist: a sequence of instance ids
    pc,             \* where main() is
    pos,            \* the playlist position of the current / next show()
    now,            \* dt.datetime.now(), in minutes
    trace,          \* what the current (or last) show() has done, in order
    data_at_start,  \* self.data when the show() that is running was entered
    cursor_trace,   \* the values current_index took in the content build of that show()
    last_shown,     \* feed name -> the object as the last show() under that name left it
    calls           \* how often Title.show() was called, whether any show() was, and
                    \* the number of show() calls modulo the length of the playlist

vars == <<cfg, feeds, instances, feed_sequence, pc, pos, now, trace,
          data_at_start, cursor_trace, last_shown, calls>>

----------------------------------------------------------------------------
(* Bounds of the model *)

MaxSeqLen == 2        \* longest configured sequence list
MaxNow == 2           \* the clock stops advancing here
MaxRefresh == 2       \* largest configured refresh interval, in minutes
MaxItems == 4         \* most items in a news snapshot
MaxItemsWanted == 2   \* largest configured "items"
MaxIndexes == 1       \* most index entries in a finance snapshot
MaxLineWidth == 9     \* largest line_width a header is built for
MaxTitleLen == 3      \* longest header title, before trimming
MaxSightings == 3     \* most sightings in an ISS snapshot
MaxShown == 2         \* largest configured max_sightings
MaxHazards == 1       \* most active hazards in a weather snapshot
MaxPeriods == 3       \* most forecast periods in a weather snapshot
MaxPeriodsWanted == 3 \* largest configured "periods"

(* dt.datetime.min, in minutes relative to the program start (about 2025   *)
(* years before it).                                                       *)
DatetimeMin == -1065000000

None == <<>>
EmptyDict == [k \in {} |-> 0]

Min(a, b) == IF a <= b THEN a ELSE b

----------------------------------------------------------------------------
(* Python dict and str primitives *)

\* d[k] = v on a dict (or setattr on a SimpleNamespace)
SetKey(d, k, v) == [x \in (DOMAIN d) \cup {k} |-> IF x = k THEN v ELSE d[x]]

\* dict.update
DictUpdate(d, other) ==
    [x \in (DOMAIN d) \cup (DOMAIN other) |-> IF x \in DOMAIN other THEN other[x] ELSE d[x]]

\* dict.get(k, default)
DictGet(d, k, default) == IF k \in DOMAIN d THEN d[k] ELSE default

Lower == "abcdefghijklmnopqrstuvwxyz"
Upper == "ABCDEFGHIJKLMNOPQRSTUVWXYZ"

\* one character of str.upper()
UpperChar(c) ==
    IF \E i \in 1..Len(Lower) : SubSeq(Lower, i, i) = c
    THEN LET i == CHOOSE j \in 1..Len(Lower) : SubSeq(Lower, j, j) = c
         IN SubSeq(Upper, i, i)
    ELSE c

RECURSIVE StrUpper(_)
StrUpper(s) == IF Len(s) = 0 THEN "" ELSE UpperChar(Head(s)) \o StrUpper(Tail(s))

\* the "in" operator on two strs
StrContains(sub, s) ==
    \E i \in 1..(Len(s) - Len(sub) + 1) : SubSeq(s, i, i + Len(sub) - 1) = sub

RECURSIVE StrLStrip(_)
StrLStrip(s) == IF Len(s) > 0 /\ Head(s) = " " THEN StrLStrip(Tail(s)) ELSE s

RECURSIVE StrRStrip(_)
StrRStrip(s) ==
    IF Len(s) > 0 /\ SubSeq(s, Len(s), Len(s)) = " "
    THEN StrRStrip(SubSeq(s, 1, Len(s) - 1))
    ELSE s

\* str.strip()
StrStrip(s) == StrRStrip(StrLStrip(s))

\* str * n
RECURSIVE StrRepeat(_, _)
StrRepeat(s, n) == IF n <= 0 THEN "" ELSE s \o StrRepeat(s, n - 1)

\* f"{s:w}": left-justified in a field of at least w characters
PadRight(s, w) == s \o StrRepeat(" ", w - Len(s))

\* f"{s:>w}": right-justified in a field of at least w characters
PadLeft(s, w) == StrRepeat(" ", w - Len(s)) \o s

----------------------------------------------------------------------------
(* BaseFeed: construction and configuration *)

\* _set_config: the base section of config.yaml becomes self.config
SetConfig(c) == c["base"]

\* BaseFeed.__init__
BaseFeedInit(c) ==
    [update_message |-> None,
     data |-> EmptyDict,
     content |-> None,
     config |-> SetKey(SetKey(SetConfig(c), "header", None), "update_message", None)]

\* get_config
GetConfig(self) == self.config

\* _update_config
UpdateConfig(self, dict) == [self EXCEPT !.config = DictUpdate(GetConfig(self), dict)]

----------------------------------------------------------------------------
(* BaseFeed: header and refresh gating *)

\* NumMarkers without the 4 characters of padding
NumMarkersNoPadding(line_width, string) ==
    IF Len(string) < line_width
    THEN (line_width - Len(string)) \div 2
    ELSE 0

\* NumMarkers clamped to one marker, not to none
NumMarkersMinOne(line_width, string) ==
    IF Len(string) + 4 < line_width
    THEN (line_width - 4 - Len(string)) \div 2
    ELSE 1

\* _get_header, lines 86-88: how many markers go on each side
NumMarkers(line_width, string) ==
    IF Len(string) + 4 < line_width
    THEN (line_width - 4 - Len(string)) \div 2
    ELSE 0

\* _get_header
GetHeader(self, header) ==
    LET left_marker == header[1]
        string == StrUpper(StrStrip(header[2]))
        right_marker == header[3]
        num_markers == NumMarkers(self.config.line_width, string)
    IN  StrRepeat(left_marker, num_markers) \o " " \o string \o " "
            \o StrRepeat(right_marker, num_markers)

\* DataIsStale without the datetime.min default: a feed that never fetched is fresh
DataIsStaleNoSentinel(self, t) ==
    /\ "fetched_on" \in DOMAIN self.data
    /\ t - self.data.fetched_on >= self.config.refresh

\* DataIsStale with > for >=: data exactly refresh minutes old is not fetched again
DataIsStaleStrict(self, t) ==
    LET data_age == t - DictGet(self.data, "fetched_on", DatetimeMin)
    IN  data_age > self.config.refresh

\* _refresh_data, lines 95-96: is the data old enough to fetch again?
\* (a timedelta of refresh minutes is refresh, in this model's unit)
DataIsStale(self, t) ==
    LET data_age == t - DictGet(self.data, "fetched_on", DatetimeMin)
    IN  data_age >= self.config.refresh

\* _refresh_data, line 97: is the update banner printed before the fetch?
\* ShowsUpdateMsg without the test of verbose_updates
ShowsUpdateMsgAlways(self) == self.config.update_message # None

ShowsUpdateMsg(self) ==
    self.config.verbose_updates /\ self.config.update_message # None

\* _refresh_data is overridden to do nothing by DatetimeFeed only
RefreshIsNoOp(self) == self.config.feed_class = "DatetimeFeed"

----------------------------------------------------------------------------
(* Collaborators: sp.format_time and the fetchers of modules/ *)

\* sp.format_time: some rendering of a time as text
FormatTime(t) == "T" \o ToString(t)

NewsItem(k) == [headline |-> "headline " \o ToString(k), summary |-> "summary " \o ToString(k)]

\* ap_news.get_news(): a list of items and the time of the fetch
GetNews(t) ==
    {[items |-> [k \in 1..n |-> NewsItem(k)], fetched_on |-> t] : n \in 0..MaxItems}

MarketMessages == {"Market is open", "Market is CLOSED for holiday", "Markets closed"}

IndexEntry(k) ==
    [name |-> "IDX" \o ToString(k), price |-> "100.5", delta |-> "-1.25", delta_pct |-> "(-1.2%)"]

\* finance.get_finance(symbols): a status message, the indexes, the time of the fetch
GetFinance(t) ==
    {[market_message |-> m, indexes |-> [k \in 1..n |-> IndexEntry(k)], fetched_on |-> t] :
        m \in MarketMessages, n \in 0..MaxIndexes}

Sighting(t) ==
    [date_time |-> t, date_text |-> "day " \o ToString(t), time_text |-> "9:15 PM",
     visible |-> "4 min", max_height |-> "52", appears |-> "10 above NW",
     disappears |-> "12 above SE"]

\* spot_the_station.get_sightings(country, region, city): the sightings listed for
\* the place, in order of time, with start times from the set times
GetSightings(t, times) ==
    {[sightings |-> [k \in DOMAIN f |-> Sighting(f[k])], location |-> "Springfield",
      fetched_on |-> t] :
        f \in {g \in UNION {[1..m -> times] : m \in 0..MaxSightings} :
                  \A i, j \in DOMAIN g : i <= j => g[i] <= g[j]}}

WeatherPeriod(k) ==
    [timeframe |-> "period " \o ToString(k), forecast |-> "forecast " \o ToString(k)]

\* weather.get_weather(lat, lon, location): the current conditions, the active
\* hazards, the forecast periods, the time of the fetch
GetWeather(t) ==
    {[location |-> "Springfield", last_update |-> "9:00 AM",
      hazards |-> [k \in 1..h |-> "hazard " \o ToString(k)],
      currently |-> "Cloudy", temp_f |-> "70F", temp_c |-> "21C", wind_speed |-> "5 mph",
      visibility |-> "10 mi", dewpoint |-> "60F", comfort |-> "comfortable",
      periods |-> [k \in 1..n |-> WeatherPeriod(k)], fetched_on |-> t] :
        h \in 0..MaxHazards, n \in 0..MaxPeriods}

\* now.day, with the clock counting the minutes of a month of 31 days from its start
DayOfMonth(t) == ((t \div 1440) % 31) + 1

\* now.strftime(format), for the directive %B in a January; other characters are
\* copied
RECURSIVE StrFTime(_, _)
StrFTime(t, format) ==
    IF Len(format) = 0
    THEN ""
    ELSE IF Len(format) >= 2 /\ SubSeq(format, 1, 2) = "%B"
         THEN "January" \o StrFTime(t, SubSeq(format, 3, Len(format)))
         ELSE SubSeq(format, 1, 1) \o StrFTime(t, Tail(format))

----------------------------------------------------------------------------
(* The content builders *)

\* self.content, once built
Content(self) == self.content[1]

RECURSIVE Flatten(_)
Flatten(ss) == IF Len(ss) = 0 THEN <<>> ELSE Head(ss) \o Flatten(Tail(ss))

\* FinanceFeed._set_content, lines 190-192: the block of one index
FinanceIndexLines(i) ==
    << "",
       "    " \o PadRight(i.name, 9) \o "  " \o PadLeft(i.price, 9),
       "               " \o PadLeft(i.delta, 9) \o "  " \o i.delta_pct >>

\* FinanceFirstLine comparing the message as it is, not its upper case
FinanceFirstLineCaseSensitive(data) ==
    IF StrContains("CLOSED", data.market_message)
    THEN data.market_message
    ELSE "As of " \o FormatTime(data.fetched_on)

\* FinanceFeed._set_content, lines 184-187: the first line
FinanceFirstLine(data) ==
    IF StrContains("CLOSED", StrUpper(data.market_message))
    THEN data.market_message
    ELSE "As of " \o FormatTime(data.fetched_on)

\* FinanceFeed._set_content
FinanceFeedSetContent(self) ==
    [self EXCEPT !.content =
        << <<FinanceFirstLine(self.data)>>
           \o Flatten([k \in 1..Len(self.data.indexes) |->
                          FinanceIndexLines(self.data.indexes[k])]) >>]

\* NewsStep advancing by one item, not by the loop counter
NewsStepByOne(current_index, i, count) ==
    IF current_index + 1 >= count THEN 0 ELSE current_index + 1

\* NewsStep with > for >=: the cursor may come to stand one past the last item
NewsStepWrapsLate(current_index, i, count) ==
    IF current_index + i > count THEN 0 ELSE current_index + i

\* NewsFeed._set_content, lines 212-214: one step of the rotation
NewsStep(current_index, i, count) ==
    IF current_index + i >= count THEN 0 ELSE current_index + i

\* NewsFeed._set_content, lines 211-214: the values current_index takes in
\* steps i..items of the loop
RECURSIVE NewsCursors(_, _, _, _)
NewsCursors(current_index, i, items, count) ==
    IF i > items
    THEN <<>>
    ELSE LET c == NewsStep(current_index, i, count)
         IN  <<c>> \o NewsCursors(c, i + 1, items, count)

\* NewsStart without the reset of lines 208-209
NewsStartNoReset(self) == self.current_index

\* NewsFeed._set_content, lines 208-209: where the rotation starts
NewsStart(self) == IF ~self.config.cycle THEN 0 ELSE self.current_index

\* NewsFeed._set_content, lines 215-220: the lines of one item
NewsItemLines(self, item) ==
    <<"", item.headline>>
        \o (IF self.config.show_summary THEN <<"", item.summary, "">> ELSE <<>>)

\* the start value of current_index followed by its value after each step
NewsCursorTrace(self) ==
    LET count == Len(self.data.items)
        items == Min(self.config.items, count)
    IN  <<NewsStart(self)>> \o NewsCursors(NewsStart(self), 1, items, count)

\* NewsFeed._set_content (items[c] of Python is items[c + 1] here)
NewsFeedSetContent(self) ==
    LET cs == NewsCursorTrace(self)
    IN  [self EXCEPT
            !.current_index = cs[Len(cs)],
            !.content = << Flatten([k \in 1..(Len(cs) - 1) |->
                               NewsItemLines(self, self.data.items[cs[k + 1] + 1])]) >>]

\* ISSFeed._set_content, lines 286-291: the block of one sighting
ISSSightingLines(s) ==
    << "",
       "    " \o s.date_text \o " @ " \o s.time_text,
       "      Visible for " \o s.visible,
       "      Max height " \o s.max_height \o " Degrees",
       "      From " \o s.appears,
       "      To   " \o s.disappears >>

\* ISSBlocks with <= for <: one block more than max_sightings
RECURSIVE ISSBlocksOneMore(_, _, _, _)
ISSBlocksOneMore(sightings, cutoff_dt, num_shown, max_sightings) ==
    IF Len(sightings) = 0
    THEN <<>>
    ELSE LET s == Head(sightings)
         IN  IF s.date_time >= cutoff_dt /\ num_shown <= max_sightings
             THEN ISSSightingLines(s)
                      \o ISSBlocksOneMore(Tail(sightings), cutoff_dt, num_shown + 1,
                                          max_sightings)
             ELSE ISSBlocksOneMore(Tail(sightings), cutoff_dt, num_shown, max_sightings)

\* ISSFeed._set_content, lines 284-292: the loop over the sightings
RECURSIVE ISSBlocks(_, _, _, _)
ISSBlocks(sightings, cutoff_dt, num_shown, max_sightings) ==
    IF Len(sightings) = 0
    THEN <<>>
    ELSE LET s == Head(sightings)
         IN  IF s.date_time >= cutoff_dt /\ num_shown < max_sightings
             THEN ISSSightingLines(s)
                      \o ISSBlocks(Tail(sightings), cutoff_dt, num_shown + 1, max_sightings)
             ELSE ISSBlocks(Tail(sightings), cutoff_dt, num_shown, max_sightings)

\* ISSFeed._set_content; t is dt.datetime.now()
ISSFeedSetContent(self, t) ==
    LET sightings == self.data.sightings
    IN  [self EXCEPT !.content =
            IF Len(sightings) = 0
            THEN << <<"No ISS Sightings Available">> >>
            ELSE << <<self.data.location, "Upcoming ISS Sightings:">>
                    \o ISSBlocks(sightings, t, 0, self.config.max_sightings) >>]

\* OrdinalSuffix by the last digit alone
OrdinalSuffixByLastDigit(day_num) ==
    IF day_num % 10 = 1 THEN "st"
    ELSE IF day_num % 10 = 2 THEN "nd"
    ELSE IF day_num % 10 = 3 THEN "rd"
    ELSE "th"

\* DatetimeFeed._set_content, lines 157-164
OrdinalSuffix(day_num) ==
    IF day_num \in {1, 21, 31} THEN "st"
    ELSE IF day_num \in {2, 22} THEN "nd"
    ELSE IF day_num \in {3, 23} THEN "rd"
    ELSE "th"

\* DatetimeFeed._set_content; t is dt.datetime.now()
DatetimeFeedSetContent(self, t) ==
    LET day_num == DayOfMonth(t)
        date_text == StrFTime(t, self.config.format) \o ToString(day_num)
                         \o OrdinalSuffix(day_num)
        time_text == FormatTime(t)
    IN  [self EXCEPT !.content =
            IF self.config.descriptive
            THEN << <<"It is " \o date_text, "Current time is " \o time_text>> >>
            ELSE << <<time_text \o " " \o date_text>> >>]

\* WeatherFeed._set_content, lines 237-240: two lines per hazard
WeatherHazardLines(hazards) ==
    Flatten([k \in 1..Len(hazards) |-> <<"", "!!! " \o hazards[k]>>])

\* ForecastPeriods without the configured limit
ForecastPeriodsAll(periods_wanted, available) == available

\* WeatherFeed._set_content, line 249
ForecastPeriods(periods_wanted, available) == Min(periods_wanted, available)

\* ShowsForecastHeader for a single period too
ShowsForecastHeaderAny(forecast_periods) == forecast_periods > 0

\* WeatherFeed._set_content, line 252
ShowsForecastHeader(forecast_periods) == forecast_periods > 1

\* WeatherFeed._set_content, lines 249-258: the forecast part
WeatherForecastLines(self) ==
    LET periods == self.data.periods
        forecast_periods == ForecastPeriods(self.config.periods, Len(periods))
    IN  IF forecast_periods > 0
        THEN <<"">>
                 \o (IF ShowsForecastHeader(forecast_periods)
                     THEN <<GetHeader(self, <<"*", "Extended Forecast...", "*">>)>>
                     ELSE <<>>)
                 \o Flatten([k \in 1..forecast_periods |->
                                <<"", periods[k].timeframe, periods[k].forecast>>])
        ELSE <<>>

\* WeatherFeed._set_content
WeatherFeedSetContent(self) ==
    LET data == self.data
    IN  [self EXCEPT !.content =
            << <<"Weather at " \o data.location, "As of " \o data.last_update>>
               \o WeatherHazardLines(data.hazards)
               \o << "",
                      "    Conditions   " \o data.currently,
                      "    Temperature  " \o data.temp_f \o " (" \o data.temp_c \o ")",
                      "    Wind         " \o data.wind_speed,
                      "    Visibility   " \o data.visibility,
                      "    Dewpoint     " \o data.dewpoint \o " " \o data.comfort >>
               \o WeatherForecastLines(self) >>]

\* the keys of self.data a content builder reads; a missing one raises KeyError
DataKeysRead(self) ==
    CASE self.config.feed_class = "FinanceFeed" -> {"market_message", "fetched_on", "indexes"}
      [] self.config.feed_class = "NewsFeed" -> {"items"}
      [] self.config.feed_class = "ISSFeed" -> {"sightings", "location"}
      [] self.config.feed_class = "WeatherFeed" ->
             {"location", "last_update", "hazards", "currently", "temp_f", "temp_c",
              "wind_speed", "visibility", "dewpoint", "comfort", "periods"}
      [] OTHER -> {}

\* items[c] of a list of count items raises IndexError (a negative c counts from
\* the end)
IndexRaises(c, count) == c >= count \/ c < -count

\* the content build raises: a key of self.data is missing, or a lookup in the news
\* items is out of range
ContentRaises(self) ==
    \/ ~(DataKeysRead(self) \subseteq DOMAIN self.data)
    \/ /\ self.config.feed_class = "NewsFeed"
       /\ LET cs == NewsCursorTrace(self)
          IN  \E k \in 2..Len(cs) : IndexRaises(cs[k], Len(self.data.items))

\* self._set_content(), by the class of self
SetContentOf(self, t) ==
    CASE self.config.feed_class = "FinanceFeed" -> FinanceFeedSetContent(self)
      [] self.config.feed_class = "NewsFeed" -> NewsFeedSetContent(self)
      [] self.config.feed_class = "ISSFeed" -> ISSFeedSetContent(self, t)
      [] self.config.feed_class = "WeatherFeed" -> WeatherFeedSetContent(self)
      [] self.config.feed_class = "DatetimeFeed" -> DatetimeFeedSetContent(self, t)

----------------------------------------------------------------------------
(* The sequencer: construct_sequence *)

\* feed_class(feed_config): the __init__ of the class named by feed_class
NewInstance(c, feed_config) ==
    LET self == UpdateConfig(BaseFeedInit(c), feed_config)
    IN  IF feed_config.feed_class = "NewsFeed"
        THEN SetKey(self, "current_index", 0)
        ELSE self

\* ConstructStep without the reuse of lines 16-18: every entry gets a new instance
ConstructStepNoReuse(st, c, feed) ==
    [sequence |-> Append(st.sequence, Len(st.heap) + 1),
     instances |-> SetKey(st.instances, feed, Len(st.heap) + 1),
     heap |-> Append(st.heap, NewInstance(c, c[feed]))]

\* construct_sequence, lines 16-29: one iteration of the loop over cfg['sequence'];
\* st holds sequence, instances and the objects made so far
ConstructStep(st, c, feed) ==
    IF feed \in DOMAIN st.instances
    THEN [st EXCEPT !.sequence = Append(@, st.instances[feed])]
    ELSE LET feed_config == c[feed]
             feed_instance == NewInstance(c, feed_config)
             id == Len(st.heap) + 1
         IN  [sequence |-> Append(st.sequence, id),
              instances |-> SetKey(st.instances, feed, id),
              heap |-> Append(st.heap, feed_instance)]

RECURSIVE ConstructLoop(_, _, _)
ConstructLoop(st, c, names) ==
    IF Len(names) = 0
    THEN st
    ELSE ConstructLoop(ConstructStep(st, c, Head(names)), c, Tail(names))

\* construct_sequence
ConstructSequenceOf(c) ==
    ConstructLoop([sequence |-> <<>>, instances |-> EmptyDict, heap |-> <<>>],
                  c, c["sequence"])

----------------------------------------------------------------------------
(* main() and show() *)

\* one thing show() does: a call of _slown, _slowp, _set_data, ...
Ev(e, text) == [ev |-> e, s |-> text]

\* the feed whose show() is running, or is next
SelfId == feed_sequence[pos]
Self == feeds[SelfId]

\* self._set_data(): what the collaborator of the class may return at time t
\* (of the finance snapshots, those with every index and two of the messages)
FetchResults(self, t) ==
    CASE self.config.feed_class = "FinanceFeed" ->
             {d \in GetFinance(t) : /\ Len(d.indexes) = MaxIndexes
                                    /\ d.market_message # "Markets closed"}
      [] self.config.feed_class = "NewsFeed" -> GetNews(t)

\* _print_update_msg: "[label", three times a sleep and a dot, a sleep, "]", a pause row
PrintUpdateMsgEvents(self) ==
    LET dot == <<Ev("sleep", "subsegment_delay"), Ev("update_msg", ".")>>
    IN  <<Ev("update_msg", "[" \o self.config.update_message[1])>>
            \o dot \o dot \o dot
            \o <<Ev("sleep", "subsegment_delay"), Ev("update_msg", "]"), Ev("slown", "")>>

\* _refresh_data, lines 97-99: the banner, if any, then the call of _set_data
FetchEvents(self) ==
    (IF ShowsUpdateMsg(self) THEN PrintUpdateMsgEvents(self) ELSE <<>>)
        \o <<Ev("set_data", "")>>

\* AfterFetchRaised with the exception caught and show() carrying on
AfterFetchRaisedCaught == "content"

\* where main() is after _set_data has raised: nothing catches the exception
AfterFetchRaised == "crashed"

\* show(), lines 106-116: what is rendered once the content is built
RenderEvents(self) ==
    (IF self.config.header # None
     THEN <<Ev("header", GetHeader(self, self.config.header))>>
     ELSE <<>>)
        \o <<Ev("slown", "")>>
        \o [k \in 1..Len(Content(self)) |->
               IF Content(self)[k] = "" THEN Ev("slown", "") ELSE Ev("line", Content(self)[k])]
        \o <<Ev("slown", ""), Ev("sleep", "")>>

\* PausePositions as random.randint(1, line_width) would draw them
PausePositionsFromOne(line_width) == 1..line_width

\* _slown, line 62: the values random.randrange(line_width) may return
PausePositions(line_width) == 0..(line_width - 1)

\* _slown, lines 63-67: the writes and sleeps of the loop from column i on
RECURSIVE SlownColumns(_, _, _)
SlownColumns(self, pause_pos, i) ==
    IF i >= self.config.line_width
    THEN <<>>
    ELSE <<Ev("write", " "), Ev("sleep_newline_delay", ToString(self.config.newline_delay))>>
             \o (IF i = pause_pos
                 THEN <<Ev("sleep_pause_time", ToString(self.config.pause_time))>>
                 ELSE <<>>)
             \o SlownColumns(self, pause_pos, i + 1)

\* _slown, lines 63-69: every write and sleep of one pause row
SlownWrites(self, pause_pos) ==
    SlownColumns(self, pause_pos, 0)
        \o <<Ev("write", "\n"), Ev("sleep_print_delay", ToString(self.config.print_delay))>>

\* NextPos going back to the first entry one entry early
NextPosWrapsEarly(p, n) == IF p >= n - 1 THEN 1 ELSE p + 1

\* main, lines 42-43: the entry after entry p of a playlist of n, the first after the last
NextPos(p, n) == IF p = n THEN 1 ELSE p + 1

\* no call of Title.show() or show() yet
NoCalls == [title |-> 0, show_any |-> FALSE, show_mod |-> 0]

\* the calls made when the first show() of a playlist of one entry is running
FirstShowCalls == [title |-> 1, show_any |-> TRUE, show_mod |-> 0]

\* main, line 34
ConstructSequence ==
    /\ pc = "construct"
    /\ LET r == ConstructSequenceOf(cfg)
       IN  /\ feeds' = r.heap
           /\ instances' = r.instances
           /\ feed_sequence' = r.sequence
    /\ pc' = "title"
    /\ UNCHANGED <<calls, cfg, pos, now, trace, data_at_start, cursor_trace, last_shown>>

\* main, lines 36-39, and Title.show
TitleShow ==
    /\ pc = "title"
    /\ trace' = << Ev("title", cfg["base"].title \o " - VERSION " \o cfg["base"].version),
                   Ev("title", cfg["base"].credit) >>
    /\ calls' = [calls EXCEPT !.title = @ + 1]
    /\ pc' = "loop"
    /\ UNCHANGED <<cfg, feeds, instances, feed_sequence, pos, now, data_at_start, cursor_trace,
                   last_shown>>

\* main, line 44, and show, lines 102-103
ShowBegin ==
    /\ pc = "loop"
    /\ Len(feed_sequence) > 0
    /\ trace' = <<Ev("slown", ""), Ev("slown", "")>>
    /\ data_at_start' = Self.data
    /\ calls' = [calls EXCEPT !.show_any = TRUE,
                              !.show_mod = (@ + 1) % Len(feed_sequence)]
    /\ pc' = "refresh"
    /\ UNCHANGED <<cfg, feeds, instances, feed_sequence, pos, now, cursor_trace, last_shown>>

\* show, line 102: the first pause row of a show(), write by write
Slown ==
    /\ pc = "loop"
    /\ Len(feed_sequence) > 0
    /\ \E pause_pos \in PausePositions(Self.config.line_width) :
           trace' = SlownWrites(Self, pause_pos)
    /\ calls' = [calls EXCEPT !.show_any = TRUE,
                              !.show_mod = (@ + 1) % Len(feed_sequence)]
    /\ pc' = "slown"
    /\ UNCHANGED <<cfg, feeds, instances, feed_sequence, pos, now, data_at_start,
                   cursor_trace, last_shown>>

\* show, line 104: _refresh_data finds the data fresh (or is DatetimeFeed's no-op)
RefreshSkip ==
    /\ pc = "refresh"
    /\ RefreshIsNoOp(Self) \/ ~DataIsStale(Self, now)
    /\ pc' = "content"
    /\ UNCHANGED <<calls, cfg, feeds, instances, feed_sequence, pos, now, trace, data_at_start,
                   cursor_trace, last_shown>>

\* show, line 104: _refresh_data finds the data stale and _set_data returns
RefreshFetch ==
    /\ pc = "refresh"
    /\ ~RefreshIsNoOp(Self) /\ DataIsStale(Self, now)
    /\ \E d \in FetchResults(Self, now) :
           feeds' = [feeds EXCEPT ![SelfId].data = d]
    /\ trace' = trace \o FetchEvents(Self)
    /\ pc' = "content"
    /\ UNCHANGED <<calls, cfg, instances, feed_sequence, pos, now, data_at_start, cursor_trace,
                   last_shown>>

\* show, line 104: _refresh_data finds the data stale and the collaborator raises
RefreshFetchRaises ==
    /\ pc = "refresh"
    /\ ~RefreshIsNoOp(Self) /\ DataIsStale(Self, now)
    /\ trace' = trace \o FetchEvents(Self) \o <<Ev("raised", "")>>
    /\ pc' = AfterFetchRaised
    /\ UNCHANGED <<calls, cfg, feeds, instances, feed_sequence, pos, now, data_at_start,
                   cursor_trace, last_shown>>

\* show, line 105
SetContent ==
    /\ pc = "content"
    /\ IF ~ContentRaises(Self)
       THEN /\ feeds' = [feeds EXCEPT ![SelfId] = SetContentOf(Self, now)]
            /\ cursor_trace' = IF Self.config.feed_class = "NewsFeed"
                               THEN NewsCursorTrace(Self)
                               ELSE cursor_trace
            /\ trace' = Append(trace, Ev("set_content", ""))
            /\ pc' = "render"
       ELSE /\ trace' = trace \o <<Ev("set_content", ""), Ev("raised", "")>>
            /\ pc' = "crashed"
            /\ UNCHANGED <<feeds, cursor_trace>>
    /\ UNCHANGED <<calls, cfg, instances, feed_sequence, pos, now, data_at_start, last_shown>>

\* show, lines 106-116, and the step of main's loops to the next playlist entry
Render ==
    /\ pc = "render"
    /\ trace' = trace \o RenderEvents(Self)
    /\ pos' = NextPos(pos, Len(feed_sequence))
    /\ last_shown' = SetKey(last_shown, cfg["sequence"][pos], Self)
    /\ data_at_start' = EmptyDict
    /\ cursor_trace' = <<>>
    /\ pc' = "loop"
    /\ UNCHANGED <<calls, cfg, feeds, instances, feed_sequence, now>>

\* a minute passes (the sleeps of a show(), a slow fetch).  The feeds of Configs
\* read the clock once per show(), in _refresh_data, so a minute that passes
\* inside a show() is a minute that passes before the next one.
Tick ==
    /\ pc = "loop"
    /\ now < MaxNow
    /\ now' = now + 1
    /\ UNCHANGED <<calls, cfg, feeds, instances, feed_sequence, pc, pos, trace, data_at_start,
                   cursor_trace, last_shown>>

----------------------------------------------------------------------------
(* The program: configurations of a news feed and a finance feed *)

FeedNames == {"news", "finance"}

BaseSection(refresh, verbose_updates) ==
    [line_width |-> 24, refresh |-> refresh, verbose_updates |-> verbose_updates,
     title |-> "RETROFEED", version |-> "1", credit |-> "by doph"]

NewsSection(cycle, items, show_summary) ==
    [feed_class |-> "NewsFeed", header |-> <<"=", " ap news ", "=">>,
     update_message |-> <<"Updating news">>,
     cycle |-> cycle, items |-> items, show_summary |-> show_summary]

FinanceSection == [feed_class |-> "FinanceFeed", symbols |-> <<"^DJI">>]

Configs ==
    {[base |-> BaseSection(r, TRUE), sequence |-> s,
      news |-> NewsSection(cy, it, TRUE), finance |-> FinanceSection] :
        r \in 1..MaxRefresh,
        s \in UNION {[1..n -> FeedNames] : n \in 0..MaxSeqLen},
        cy \in BOOLEAN, it \in 0..MaxItemsWanted}

Init ==
    /\ cfg \in Configs
    /\ feeds = <<>>
    /\ instances = EmptyDict
    /\ feed_sequence = <<>>
    /\ pc = "construct"
    /\ pos = 1
    /\ now = 0
    /\ trace = <<>>
    /\ data_at_start = EmptyDict
    /\ cursor_trace = <<>>
    /\ last_shown = EmptyDict
    /\ calls = NoCalls

Next ==
    \/ ConstructSequence
    \/ TitleShow
    \/ ShowBegin
    \/ RefreshSkip
    \/ RefreshFetch
    \/ RefreshFetchRaises
    \/ SetContent
    \/ Render
    \/ Tick

Spec == Init /\ [][Next]_vars

----------------------------------------------------------------------------
(* Properties of the sequencer and of show() *)

IsNews(self) == self.config.feed_class = "NewsFeed"

\* the events show() has added in this step
NewEvents == {trace'[k].ev : k \in (Len(trace) + 1)..Len(trace')}

\* this step is the content build of feed id
BuildsContent(id) == pc = "content" /\ pc' = "render" /\ SelfId = id

\* C4: the step of a data-backed feed's show() that leaves _refresh_data invokes
\* the fetch exactly when the feed has never fetched or now - fetched_on >= refresh;
\* when the data is younger than that, the step leaves Data as it was.
C4_RefreshGating ==
    [][ (pc = "refresh" /\ pc' # "refresh" /\ Self.config.feed_class # "DatetimeFeed") =>
            LET never == "fetched_on" \notin DOMAIN Self.data
                due == IF never THEN TRUE
                       ELSE now - Self.data.fetched_on >= Self.config.refresh
            IN  /\ ("set_data" \in NewEvents) <=> due
                /\ ~due => feeds'[SelfId].data = Self.data ]_vars

\* a show() that found data one minute younger than the interval and did not fetch
C4_Witness ==
    /\ pc = "content"
    /\ "fetched_on" \in DOMAIN Self.data
    /\ now - Self.data.fetched_on = Self.config.refresh - 1
    /\ \A k \in 1..Len(trace) : trace[k].ev # "set_data"

\* C5: once the playlist is built, positions with the same feed name hold the same
\* instance, there is one instance per distinct name, and a show() at a position
\* whose name occurred earlier in the pass starts from the object (cursor, Data,
\* Content) as the latest show() under that name left it.
C5_SharedInstance ==
    pc # "construct" =>
        /\ Len(feed_sequence) = Len(cfg["sequence"])
        /\ \A i, j \in 1..Len(feed_sequence) :
               cfg["sequence"][i] = cfg["sequence"][j] => feed_sequence[i] = feed_sequence[j]
        /\ Len(feeds) = Cardinality({cfg["sequence"][i] : i \in 1..Len(cfg["sequence"])})
        /\ (pc = "loop" /\ \E q \in 1..(pos - 1) : cfg["sequence"][q] = cfg["sequence"][pos])
               => Self = last_shown[cfg["sequence"][pos]]

\* the second of two positions named "news" is about to show, the cursor moved on
C5_Witness ==
    /\ pc = "loop"
    /\ pos = 2
    /\ cfg["sequence"] = <<"news", "news">>
    /\ Self.current_index > 0
    /\ Self.content # None

\* C6: with cycle enabled, current_index changes only in a content build; the build
\* starts from the value the previous build left and makes min(items, count) steps,
\* step i going from c to c + i, or to 0 when c + i >= count; the headline of step i
\* is the one at the cursor after the step.
C6_CycleRotation ==
    [][ \A id \in DOMAIN feeds :
            (IsNews(feeds[id]) /\ feeds[id].config.cycle) =>
                IF BuildsContent(id)
                THEN LET count == Len(feeds[id].data.items)
                         n == Min(feeds[id].config.items, count)
                         per == IF feeds[id].config.show_summary THEN 5 ELSE 2
                     IN  /\ Len(cursor_trace') = n + 1
                         /\ cursor_trace'[1] = feeds[id].current_index
                         /\ \A i \in 1..n :
                                /\ cursor_trace'[i + 1] =
                                       IF cursor_trace'[i] + i >= count
                                       THEN 0
                                       ELSE cursor_trace'[i] + i
                                /\ Content(feeds'[id])[per * (i - 1) + 2] =
                                       feeds[id].data.items[cursor_trace'[i + 1] + 1].headline
                         /\ feeds'[id].current_index = cursor_trace'[n + 1]
                ELSE feeds'[id].current_index = feeds[id].current_index ]_vars

\* a build that started from a cursor an earlier build left and whose second step
\* went on by 2 without wrapping
C6_Witness ==
    /\ pc = "render"
    /\ IsNews(Self) /\ Self.config.cycle
    /\ Len(cursor_trace) = 3
    /\ cursor_trace[1] > 0
    /\ cursor_trace[3] = cursor_trace[2] + 2

\* C7: with cycle disabled, every content build starts from cursor 0, and a build
\* on the Data the previous build used yields the Content the previous build left.
C7_NoCycleIdempotent ==
    [][ \A id \in DOMAIN feeds :
            (IsNews(feeds[id]) /\ ~feeds[id].config.cycle /\ BuildsContent(id)) =>
                /\ cursor_trace'[1] = 0
                /\ (feeds[id].content # None /\ feeds[id].data = data_at_start)
                       => feeds'[id].content = feeds[id].content ]_vars

\* a second build on unchanged Data, after the first left the cursor off 0
C7_Witness ==
    /\ pc = "render"
    /\ IsNews(Self) /\ ~Self.config.cycle
    /\ \A k \in 1..Len(trace) : trace[k].ev # "set_data"
    /\ Self.data = data_at_start
    /\ Self.current_index > 0
    /\ Len(Content(Self)) > 0

\* C10: once the fetch of a show() has raised, the program has stopped: the fetch was
\* invoked once, the exception is the last thing that happened, no content build and
\* no header or content line is in the show()'s trace, Data is as the show() found
\* it, and no step of the program is possible.
C10_FetchFailureStops ==
    (\E k \in 2..Len(trace) : trace[k].ev = "raised" /\ trace[k - 1].ev = "set_data") =>
        /\ pc = "crashed"
        /\ trace[Len(trace)].ev = "raised"
        /\ Cardinality({k \in 1..Len(trace) : trace[k].ev = "set_data"}) = 1
        /\ \A k \in 1..Len(trace) : trace[k].ev \notin {"set_content", "header", "line"}
        /\ Self.data = data_at_start
        /\ ~ENABLED Next

\* the refetch of a feed that had data fails, at the second playlist position
C10_Witness ==
    /\ pc = "crashed"
    /\ pos = 2
    /\ "fetched_on" \in DOMAIN data_at_start
    /\ trace[Len(trace)].ev = "raised"

----------------------------------------------------------------------------
(* Construction alone: base layers and overrides of every shape *)

\* a dict that has key k, with one of the values vs, or does not have it
Optional(k, vs) == {EmptyDict} \cup {[x \in {k} |-> v] : v \in vs}

BaseLayers ==
    {DictUpdate(DictUpdate([line_width |-> w, refresh |-> 1, verbose_updates |-> v,
                            title |-> "RETROFEED", version |-> "1", credit |-> "by doph"],
                           h), m) :
        w \in {24, 40}, v \in BOOLEAN,
        h \in Optional("header", {<<"*", "retrofeed", "*">>}),
        m \in Optional("update_message", {<<"Updating">>})}

FinanceOverrides ==
    {DictUpdate(DictUpdate(DictUpdate(DictUpdate(FinanceSection, h), m), w), r) :
        h \in Optional("header", {<<"=", "finance", "=">>}),
        m \in Optional("update_message", {<<"Updating finance">>}),
        w \in Optional("line_width", {30}),
        r \in Optional("refresh", {MaxRefresh})}

InitConfig ==
    /\ cfg \in {[base |-> b, sequence |-> <<"finance">>,
                 news |-> NewsSection(TRUE, 1, TRUE), finance |-> f] :
                   b \in BaseLayers, f \in FinanceOverrides}
    /\ feeds = <<>>
    /\ instances = EmptyDict
    /\ feed_sequence = <<>>
    /\ pc = "construct"
    /\ pos = 1
    /\ now = 0
    /\ trace = <<>>
    /\ data_at_start = EmptyDict
    /\ cursor_trace = <<>>
    /\ last_shown = EmptyDict
    /\ calls = NoCalls

SpecConfig == InitConfig /\ [][ConstructSequence]_vars

\* C3: the effective configuration of every constructed feed has each key of its
\* overrides at the override value and each base key the overrides lack at its
\* base value, header and update_message included.
C3_EffectiveConfig ==
    pc # "construct" =>
        \A i \in 1..Len(feed_sequence) :
            LET overrides == cfg[cfg["sequence"][i]]
                base == cfg["base"]
                config == feeds[feed_sequence[i]].config
            IN  /\ \A k \in DOMAIN overrides : config[k] = overrides[k]
                /\ \A k \in (DOMAIN base) \ (DOMAIN overrides) : config[k] = base[k]

----------------------------------------------------------------------------
(* The rendering step alone: headers of every title and width *)

TitleChars == {" ", "a", "B"}

RECURSIVE StrsOfLen(_)
StrsOfLen(n) ==
    IF n = 0 THEN {""} ELSE {c \o t : c \in TitleChars, t \in StrsOfLen(n - 1)}

Titles == UNION {StrsOfLen(n) : n \in 0..MaxTitleLen}

\* a finance feed with its content built at time 0, about to render
InitHeader ==
    /\ cfg \in {[base |-> [BaseSection(1, FALSE) EXCEPT !.line_width = w],
                 sequence |-> <<"finance">>,
                 news |-> NewsSection(TRUE, 1, TRUE),
                 finance |-> DictUpdate(FinanceSection, [header |-> <<m[1], t, m[2]>>])] :
                   w \in 1..MaxLineWidth, t \in Titles, m \in {<<"*", "*">>, <<"<", ">">>}}
    /\ LET r == ConstructSequenceOf(cfg)
       IN  /\ \E d \in FetchResults(r.heap[1], 0) :
                  feeds = [r.heap EXCEPT ![1] = SetContentOf([@ EXCEPT !.data = d], 0)]
           /\ instances = r.instances
           /\ feed_sequence = r.sequence
    /\ pc = "render"
    /\ pos = 1
    /\ now = 0
    /\ trace = <<Ev("slown", ""), Ev("slown", ""), Ev("set_data", ""), Ev("set_content", "")>>
    /\ data_at_start = EmptyDict
    /\ cursor_trace = <<>>
    /\ last_shown = EmptyDict
    /\ calls = FirstShowCalls

SpecHeader == InitHeader /\ [][Render]_vars

\* the header strings show() has rendered
HeadersRendered == {trace[k].s : k \in {j \in 1..Len(trace) : trace[j].ev = "header"}}

\* the configured title of the feed, trimmed
TrimmedTitle == StrStrip(Self.config.header[2])

\* C8: when the trimmed title and 4 more characters fit in line_width, the header
\* show() renders is at most line_width characters long.
C8_HeaderFits ==
    (Len(feed_sequence) > 0 /\ Self.config.header # None
        /\ Len(TrimmedTitle) + 4 <= Self.config.line_width)
        => \A h \in HeadersRendered : Len(h) <= Self.config.line_width

\* a rendered header with markers that fills the line but for two characters
C8_Witness ==
    /\ pc = "loop"
    /\ Len(TrimmedTitle) = 3
    /\ Self.config.line_width = 9
    /\ \E h \in HeadersRendered : Len(h) = 7 /\ Head(h) = "<"

\* C9 as claimed: when the trimmed title and 4 more characters do not fit, the
\* header is exactly the trimmed, uppercased title.
C9_BareTitle ==
    (Len(feed_sequence) > 0 /\ Self.config.header # None
        /\ Len(TrimmedTitle) + 4 > Self.config.line_width)
        => \A h \in HeadersRendered : h = StrUpper(TrimmedTitle)

\* C9, amended: when the trimmed title and 4 more characters do not fit, the header
\* is the trimmed, uppercased title between two single spaces, without markers.
C9_SpacedTitle ==
    (Len(feed_sequence) > 0 /\ Self.config.header # None
        /\ Len(TrimmedTitle) + 4 > Self.config.line_width)
        => \A h \in HeadersRendered : h = " " \o StrUpper(TrimmedTitle) \o " "

\* a rendered header of a title that was trimmed and uppercased and did not fit
C9_Witness ==
    /\ pc = "loop"
    /\ Self.config.header[2] = " a "
    /\ Self.config.line_width = 4
    /\ HeadersRendered = {" A "}

----------------------------------------------------------------------------
(* The content build alone: snapshots of every shape *)

ISSSection(max_sightings) ==
    [feed_class |-> "ISSFeed", country |-> "United_States", region |-> "Illinois",
     city |-> "Springfield", max_sightings |-> max_sightings]

WeatherSection(periods, line_width) ==
    [feed_class |-> "WeatherFeed", lat |-> "39.8", lon |-> "-89.6",
     location |-> "Springfield", periods |-> periods, line_width |-> line_width]

DatetimeSection(descriptive) ==
    [feed_class |-> "DatetimeFeed", format |-> "%B ", descriptive |-> descriptive]

\* one feed of one class, with every setting of the class that its content depends on
ContentConfigs ==
    {[base |-> BaseSection(MaxNow + 1, FALSE), sequence |-> <<n>>,
      news |-> NewsSection(TRUE, 1, TRUE), finance |-> FinanceSection,
      iss |-> ISSSection(m), weather |-> WeatherSection(p, w),
      clock |-> DatetimeSection(d)] :
        n \in {"finance", "iss", "weather", "clock"}, m \in 0..MaxShown,
        p \in 0..MaxPeriodsWanted, w \in {24, 30}, d \in BOOLEAN}

\* the sections of c that the playlist of c does not name are all the same
OneFeedConfig(c) ==
    LET n == c.sequence[1]
    IN  /\ n # "iss" => c.iss = ISSSection(0)
        /\ n # "weather" => c.weather = WeatherSection(0, 24)
        /\ n # "clock" => c.clock = DatetimeSection(FALSE)

\* the snapshots a feed of the class may hold at time t; the clock feed never fetches
SnapshotsAt(self, t) ==
    CASE self.config.feed_class = "FinanceFeed" -> UNION {GetFinance(f) : f \in 0..t}
      [] self.config.feed_class = "ISSFeed" ->
             UNION {GetSightings(f, 0..(MaxNow + 1)) : f \in 0..t}
      [] self.config.feed_class = "WeatherFeed" -> UNION {GetWeather(f) : f \in 0..t}
      [] self.config.feed_class = "DatetimeFeed" -> {EmptyDict}

\* the times at which the content is built: the clock feed at the start of each of
\* the 31 days and a few minutes later
ContentTimes(c) ==
    IF c[c.sequence[1]].feed_class = "DatetimeFeed"
    THEN {1440 * d + m : d \in 0..30, m \in 0..MaxNow}
    ELSE 0..MaxNow

\* a feed that has fetched, in this show() or in an earlier one (the refresh interval
\* of ContentConfigs is longer than the clock runs), about to build its content
InitContent ==
    /\ cfg \in {c \in ContentConfigs : OneFeedConfig(c)}
    /\ now \in ContentTimes(cfg)
    /\ LET r == ConstructSequenceOf(cfg)
       IN  /\ \E d \in SnapshotsAt(r.heap[1], now) :
                  LET fetched == DictGet(d, "fetched_on", DatetimeMin) = now
                  IN  /\ feeds = [r.heap EXCEPT ![1].data = d]
                      /\ data_at_start = IF fetched THEN EmptyDict ELSE d
                      /\ trace = <<Ev("slown", ""), Ev("slown", "")>>
                                     \o (IF fetched THEN <<Ev("set_data", "")>> ELSE <<>>)
           /\ instances = r.instances
           /\ feed_sequence = r.sequence
    /\ pc = "content"
    /\ pos = 1
    /\ cursor_trace = <<>>
    /\ last_shown = EmptyDict
    /\ calls = FirstShowCalls

SpecContent == InitContent /\ [][SetContent]_vars

IsFinance(self) == self.config.feed_class = "FinanceFeed"
IsISS(self) == self.config.feed_class = "ISSFeed"

\* the content of the finance feed of this state has just been built from a snapshot
\* whose market_message contains CLOSED in some case
ClosedFinanceBuilt ==
    /\ pc = "render"
    /\ IsFinance(Self)
    /\ StrContains("CLOSED", StrUpper(Self.data.market_message))

C2_NoFutureSightings ==
    (pc = "render" /\ IsISS(Self)
        /\ \A k \in 1..Len(Self.data.sightings) : Self.data.sightings[k].date_time < now)
        => Content(Self) = <<"No ISS Sightings Available">>

-----------------------------------------------------------------------------
(* The order of the calls main makes *)

\* the refresh step of a show(): it finds the data fresh, or the fetch raises, or
\* the fetch returns a snapshot
RefreshStep ==
    \/ RefreshSkip
    \/ RefreshFetchRaises
    \/ RefreshFetch

\* C11: Title.show() is called once, and before any show(); with a playlist of
\* n >= 1 entries the k-th show() call (k = 0, 1, 2, ...) is on entry k mod n, both
\* while it runs and when it is the next one to start; and the loop has no exit of
\* its own: after every finished show(), the last of a pass included, the next
\* show() can start, and a show() that has started can take its refresh step.
C11_TitleThenPlaylistOrder ==
    LET n == Len(feed_sequence)
    IN  /\ calls.title <= 1
        /\ calls.show_any => calls.title = 1
        /\ pc \in {"loop", "refresh", "content", "render"} => calls.title = 1
        /\ (n >= 1 /\ pc \in {"refresh", "content", "render"}) =>
               /\ calls.show_any
               /\ pos - 1 = (calls.show_mod + n - 1) % n
        /\ (n >= 1 /\ pc = "loop") =>
               /\ pos - 1 = calls.show_mod
               /\ ENABLED ShowBegin
        /\ (n >= 1 /\ pc = "refresh") => ENABLED RefreshStep

\* the third show() of a playlist of two entries is running, on the first entry again
C11_Witness ==
    /\ cfg["sequence"] = <<"news", "finance">>
    /\ pc = "refresh"
    /\ pos = 1
    /\ calls.title = 1
    /\ calls.show_mod = 1
    /\ "finance" \in DOMAIN last_shown

-----------------------------------------------------------------------------
(* The weather feed's content *)

IsWeather(self) == self.config.feed_class = "WeatherFeed"

\* the lines of a weather content that hold the forecast header's title
ForecastHeaderLines(content) ==
    {k \in 1..Len(content) : StrContains("EXTENDED FORECAST...", content[k])}

\* C12: a weather snapshot with no active hazard, built with periods configured as 0,
\* yields exactly 8 lines: the location, the as-of line, one blank line and the five
\* condition lines; no line holds the "Extended Forecast..." title, however many
\* forecast periods the snapshot has.
C12_EightLinesNoForecast ==
    (pc = "render" /\ IsWeather(Self)
        /\ Len(Self.data.hazards) = 0 /\ Self.config.periods = 0) =>
        LET content == Content(Self)
            data == Self.data
        IN  /\ Len(content) = 8
            /\ content[1] = "Weather at " \o data.location
            /\ content[2] = "As of " \o data.last_update
            /\ content[3] = ""
            /\ StrContains("Conditions", content[4]) /\ StrContains(data.currently, content[4])
            /\ StrContains("Temperature", content[5]) /\ StrContains(data.temp_f, content[5])
            /\ StrContains(data.temp_c, content[5])
            /\ StrContains("Wind", content[6]) /\ StrContains(data.wind_speed, content[6])
            /\ StrContains("Visibility", content[7]) /\ StrContains(data.visibility, content[7])
            /\ StrContains("Dewpoint", content[8]) /\ StrContains(data.dewpoint, content[8])
            /\ StrContains(data.comfort, content[8])
            /\ ForecastHeaderLines(content) = {}

\* periods is 0 and the snapshot has no hazard and as many periods as a snapshot can
C12_Witness ==
    /\ pc = "render" /\ IsWeather(Self)
    /\ Len(Self.data.hazards) = 0 /\ Self.config.periods = 0
    /\ Len(Self.data.periods) = MaxPeriods
    /\ Len(Content(Self)) = 8

\* C18: with n = min(periods wanted, periods available), the lines after the
\* condition block are: nothing when n <= 0; otherwise a blank line, then the
\* forecast header when n > 1, then for each of the first n periods of the snapshot,
\* in order, a blank line, its timeframe and its forecast.  A line with the
\* "Extended Forecast..." title is in Content exactly when n > 1.
C18_ForecastPeriods ==
    (pc = "render" /\ IsWeather(Self)) =>
        LET content == Content(Self)
            periods == Self.data.periods
            n == Min(Self.config.periods, Len(periods))
            conditions_end == 8 + 2 * Len(Self.data.hazards)
            forecast == SubSeq(content, conditions_end + 1, Len(content))
            first == IF n > 1 THEN 3 ELSE 2
        IN  /\ n <= 0 => forecast = <<>>
            /\ n > 0 =>
                   /\ Len(forecast) = first - 1 + 3 * n
                   /\ forecast[1] = ""
                   /\ \A k \in 1..n :
                          /\ forecast[first + 3 * (k - 1)] = ""
                          /\ forecast[first + 3 * (k - 1) + 1] = periods[k].timeframe
                          /\ forecast[first + 3 * (k - 1) + 2] = periods[k].forecast
            /\ ForecastHeaderLines(content) =
                   IF n > 1 THEN {conditions_end + 2} ELSE {}

\* two periods wanted of three available, after a hazard: the header and the first
\* two periods
C18_Witness ==
    /\ pc = "render" /\ IsWeather(Self)
    /\ Self.config.periods = 2
    /\ Len(Self.data.periods) = 3
    /\ Len(Self.data.hazards) = 1
    /\ Self.config.line_width = 30
    /\ Len(Content(Self)) = 18
    /\ Content(Self)[12] = "*** EXTENDED FORECAST... ***"
    /\ Content(Self)[17] = "period 2"

-----------------------------------------------------------------------------
(* The clock feed's and the ISS feed's content *)

IsDatetime(self) == self.config.feed_class = "DatetimeFeed"

\* the ordinal suffix of the day of month d, as the claim lists it
SuffixClaimed(d) ==
    CASE d \in {1, 21, 31} -> "st"
      [] d \in {2, 22} -> "nd"
      [] d \in {3, 23} -> "rd"
      [] d \in (1..31) \ {1, 21, 31, 2, 22, 3, 23} -> "th"

\* C13: on every day-of-month d in 1..31 the date text of the clock feed's content
\* is the formatted date, d and the suffix "st" for 1, 21, 31, "nd" for 2, 22, "rd"
\* for 3, 23 and "th" for every other d; the content is the two-line form when
\* descriptive is set and the one-line form otherwise.
C13_OrdinalSuffix ==
    (pc = "render" /\ IsDatetime(Self)) =>
        LET d == DayOfMonth(now)
            date_text == "January " \o ToString(d) \o SuffixClaimed(d)
        IN  /\ d \in 1..31
            /\ Content(Self) =
                   IF Self.config.descriptive
                   THEN <<"It is " \o date_text, "Current time is " \o FormatTime(now)>>
                   ELSE <<FormatTime(now) \o " " \o date_text>>

\* the descriptive content built on the 11th
C13_Witness ==
    /\ pc = "render" /\ IsDatetime(Self)
    /\ DayOfMonth(now) = 11
    /\ Content(Self)[1] = "It is January 11th"

\* the sightings of the snapshot that start at now or later
RECURSIVE Qualifying(_)
Qualifying(sightings) ==
    IF Len(sightings) = 0
    THEN <<>>
    ELSE (IF Head(sightings).date_time >= now THEN <<Head(sightings)>> ELSE <<>>)
             \o Qualifying(Tail(sightings))

\* C17: the sighting blocks of the ISS feed's content are the blocks of the first
\* min(max_sightings, number of qualifying sightings) qualifying sightings (start
\* time >= now), in snapshot order; so no block is of a sighting that started before
\* now and there are at most max_sightings blocks.
C17_SightingBlocks ==
    (pc = "render" /\ IsISS(Self)) =>
        LET content == Content(Self)
            sightings == Self.data.sightings
            qualifying == Qualifying(sightings)
            n == Min(Self.config.max_sightings, Len(qualifying))
            blocks == IF Len(sightings) = 0 THEN <<>> ELSE SubSeq(content, 3, Len(content))
        IN  /\ Len(blocks) = 6 * n
            /\ n <= Self.config.max_sightings
            /\ \A k \in 1..n :
                   /\ qualifying[k].date_time >= now
                   /\ SubSeq(blocks, 6 * k - 5, 6 * k) = ISSSightingLines(qualifying[k])

\* one block wanted; a past sighting and two later ones: the block of the second
C17_Witness ==
    /\ pc = "render" /\ IsISS(Self)
    /\ Self.config.max_sightings = 1
    /\ Len(Self.data.sightings) = 3
    /\ now = 2
    /\ Self.data.sightings[1].date_time = 1
    /\ Self.data.sightings[2].date_time = 2
    /\ Self.data.sightings[3].date_time = 3
    /\ Len(Content(Self)) = 8
    /\ Content(Self)[4] = "    day 2 @ 9:15 PM"

-----------------------------------------------------------------------------
(* The order of the events of a show() *)

\* the playlist position of the show() that has just finished
PrevPos == IF pos = 1 THEN Len(feed_sequence) ELSE pos - 1

\* the feed whose show() has just finished
Shown == feeds[feed_sequence[PrevPos]]

\* a show() has run to its end and nothing has happened since
ShowCompleted == pc = "loop" /\ calls.show_any

\* where in the trace of a show() the content build is
ContentBuiltAt == CHOOSE k \in 1..Len(trace) : trace[k].ev = "set_content"

\* the event that renders one content line
LineEvent(line) == IF line = "" THEN Ev("slown", "") ELSE Ev("line", line)

\* the events of the finished show() are, in order: two pause rows; the refresh step
\* (nothing, or the banner and the fetch, or the fetch); the content build; the
\* header if one is configured; pause_rows pause rows; one event per content line;
\* a pause row and the sleep between segments
ShowInOrder(pause_rows) ==
    LET c == ContentBuiltAt
        refresh == SubSeq(trace, 3, c - 1)
        rendered == SubSeq(trace, c + 1, Len(trace))
        content == Content(Shown)
        h == IF Shown.config.header # None THEN 1 ELSE 0
    IN  /\ Cardinality({k \in 1..Len(trace) : trace[k].ev = "set_content"}) = 1
        /\ c >= 3
        /\ trace[1] = Ev("slown", "") /\ trace[2] = Ev("slown", "")
        /\ \A k \in 1..Len(refresh) : refresh[k].ev \notin {"header", "line", "raised"}
        /\ refresh # <<>> => refresh[Len(refresh)] = Ev("set_data", "")
        /\ Len(rendered) = h + pause_rows + Len(content) + 2
        /\ h = 1 => rendered[1].ev = "header"
        /\ \A k \in 1..pause_rows : rendered[h + k] = Ev("slown", "")
        /\ \A k \in 1..Len(content) : rendered[h + pause_rows + k] = LineEvent(content[k])
        /\ rendered[Len(rendered) - 1] = Ev("slown", "")
        /\ rendered[Len(rendered)] = Ev("sleep", "")

\* C14: the events of every completed show() are in the order of the contract, with
\* a pause row between the content build and the first content line only if a header
\* is configured (the header, then the pause row).
C14_ShowOrderAsClaimed ==
    ShowCompleted =>
        ShowInOrder(IF Shown.config.header # None THEN 1 ELSE 0)

-----------------------------------------------------------------------------
(* The update banner: every setting of verbose_updates and update_message *)

\* the dict d without the key k
WithoutKey(d, k) == [x \in (DOMAIN d) \ {k} |-> d[x]]

\* one feed, news or finance, with or without a banner label of its own; the base
\* section may have a label too (__init__ resets that one)
BannerConfigs ==
    {[base |-> DictUpdate(BaseSection(r, v), b), sequence |-> <<n>>,
      news |-> DictUpdate(WithoutKey(NewsSection(FALSE, 1, TRUE), "update_message"), m),
      finance |-> DictUpdate(FinanceSection, m)] :
        r \in 1..MaxRefresh, v \in BOOLEAN, n \in FeedNames,
        b \in Optional("update_message", {<<"Updating">>}),
        m \in Optional("update_message", {<<"Updating feed">>})}

InitBanner ==
    /\ cfg \in BannerConfigs
    /\ feeds = <<>>
    /\ instances = EmptyDict
    /\ feed_sequence = <<>>
    /\ pc = "construct"
    /\ pos = 1
    /\ now = 0
    /\ trace = <<>>
    /\ data_at_start = EmptyDict
    /\ cursor_trace = <<>>
    /\ last_shown = EmptyDict
    /\ calls = NoCalls

SpecBanner == InitBanner /\ [][Next]_vars

\* the events show() has added in this step, in order
NewTrace == SubSeq(trace', Len(trace) + 1, Len(trace'))

\* C15: the refresh step of a show() renders the update banner exactly when the data
\* is stale (never fetched, or now - fetched_on >= refresh), verbose_updates is set
\* and the feed has a banner label; the banner is then complete ("[label", three
\* times a sleep and a dot, a sleep, "]", a pause row) and the fetch is invoked right
\* after it; a refresh step that does not fetch renders no banner, and no other step
\* of a show() renders any.
C15_BannerWithFetch ==
    [][ /\ (pc = "refresh" /\ pc' # "refresh") =>
               LET stale == IF "fetched_on" \notin DOMAIN Self.data THEN TRUE
                            ELSE now - Self.data.fetched_on >= Self.config.refresh
                   label == Self.config.update_message
                   banner == stale /\ Self.config.verbose_updates /\ label # None
                   sleep == Ev("sleep", "subsegment_delay")
                   dot == Ev("update_msg", ".")
               IN  /\ ("update_msg" \in NewEvents) <=> banner
                   /\ banner =>
                          /\ Len(NewTrace) >= 11
                          /\ SubSeq(NewTrace, 1, 9) =
                                 << Ev("update_msg", "[" \o label[1]), sleep, dot, sleep, dot,
                                    sleep, dot, sleep, Ev("update_msg", "]") >>
                          /\ NewTrace[10] = Ev("slown", "")
                          /\ NewTrace[11] = Ev("set_data", "")
                   /\ stale <=> ("set_data" \in NewEvents)
                   /\ "set_data" \notin NewEvents => NewTrace = <<>>
        /\ (pc \in {"content", "render"}) => "update_msg" \notin NewEvents ]_vars

\* a refetch, with the banner rendered before it
C15_Witness ==
    /\ pc = "content"
    /\ Self.config.verbose_updates
    /\ "fetched_on" \in DOMAIN data_at_start
    /\ Len(trace) = 13
    /\ trace[3] = Ev("update_msg", "[Updating feed")
    /\ trace[11] = Ev("update_msg", "]")
    /\ trace[13] = Ev("set_data", "")

-----------------------------------------------------------------------------
(* One pause row, write by write *)

\* the delays of the base section: a pause of no length (the default) or a longer one
SlownConfigs ==
    {[base |-> DictUpdate(BaseSection(1, FALSE),
                          [line_width |-> w, print_delay |-> 1, newline_delay |-> nd,
                           pause_time |-> p]),
      sequence |-> <<"finance">>, finance |-> FinanceSection] :
        w \in 1..MaxLineWidth, nd \in {1, 2}, p \in {0, 5}}

\* the title has been shown and the first show() is about to start
InitSlown ==
    /\ cfg \in SlownConfigs
    /\ LET r == ConstructSequenceOf(cfg)
       IN  /\ feeds = r.heap
           /\ instances = r.instances
           /\ feed_sequence = r.sequence
    /\ pc = "loop"
    /\ pos = 1
    /\ now = 0
    /\ trace = <<>>
    /\ data_at_start = EmptyDict
    /\ cursor_trace = <<>>
    /\ last_shown = EmptyDict
    /\ calls = [NoCalls EXCEPT !.title = 1]

SpecSlown == InitSlown /\ [][Slown]_vars

\* the places in the trace where event e is
Where(e) == {k \in 1..Len(trace) : trace[k] = e}

\* C16: for every line_width >= 1 and every pause position drawn, a pause row is:
\* line_width writes of a space, each followed at once by one newline_delay sleep;
\* the pause_time sleep once, right after the delay of one of the spaces; then one
\* write of a newline and one print_delay sleep, which end it.  Nothing else is
\* written or slept, so the events of the row are the same for every position.
C16_PauseRow ==
    pc = "slown" =>
        LET config == Self.config
            line_width == config.line_width
            space == Ev("write", " ")
            delay == Ev("sleep_newline_delay", ToString(config.newline_delay))
            pause == Ev("sleep_pause_time", ToString(config.pause_time))
            n == Len(trace)
        IN  /\ line_width >= 1
            /\ Cardinality(Where(space)) = line_width
            /\ Cardinality(Where(delay)) = line_width
            /\ \A k \in Where(space) : k + 1 \in Where(delay)
            /\ Cardinality(Where(pause)) = 1
            /\ \A k \in Where(pause) :
                   /\ k - 1 \in Where(delay)
                   /\ Cardinality({j \in Where(space) : j < k}) \in 1..line_width
            /\ n = 2 * line_width + 3
            /\ trace[n - 1] = Ev("write", "\n")
            /\ trace[n] = Ev("sleep_print_delay", ToString(config.print_delay))

\* a row of three columns with the pause after the second
C16_Witness ==
    /\ pc = "slown"
    /\ Self.config.line_width = 3
    /\ Self.config.pause_time = 5
    /\ trace[5] = Ev("sleep_pause_time", "5")
    /\ Len(trace) = 9

-----------------------------------------------------------------------------
(* The news cursor and the items; the content build in a show() *)

\* C19: the content build of a news feed never raises; each of its lookups, of which
\* there are min(items wanted, item count), uses a cursor in 0..item count - 1 of
\* the snapshot the feed then holds, wherever the cursor stood before; with no item
\* there is no lookup and Content is empty.
C19_CursorInRange ==
    /\ (pc = "render" /\ IsNews(Self)) =>
           LET count == Len(Self.data.items)
           IN  /\ Len(cursor_trace) = 1 + Min(Self.config.items, count)
               /\ \A k \in 2..Len(cursor_trace) : cursor_trace[k] \in 0..(count - 1)
               /\ count = 0 => (Len(cursor_trace) = 1 /\ Content(Self) = <<>>)
    /\ (pc = "crashed" /\ IsNews(Self)) =>
           \A k \in 1..Len(trace) : trace[k].ev # "set_content"

\* a refresh has replaced the list by a shorter one: the cursor stood past its end
\* when the build began
C19_Witness ==
    /\ pc = "render" /\ IsNews(Self)
    /\ Self.config.cycle
    /\ Len(Self.data.items) > 0
    /\ "items" \in DOMAIN data_at_start
    /\ Len(data_at_start.items) > Len(Self.data.items)
    /\ cursor_trace[1] >= Len(Self.data.items)
    /\ Len(cursor_trace) >= 2

\* where in the trace of the running or finished show() the content was built
BuiltAt == {k \in 1..Len(trace) : trace[k].ev = "set_content"}

\* C20: in a show() the content builder runs at most once, and once when the show()
\* renders; nothing of the refresh step (banner, fetch) comes after it; the feed it
\* ran on has fetched_on in its Data, that is, has completed a fetch; and the last
\* events of a completed show() before the final pause row and sleep are the lines
\* of the Content the feed has from that one build, one event per line, in order.
C20_BuildAfterRefresh ==
    /\ Cardinality(BuiltAt) <= 1
    /\ \A c \in BuiltAt :
           /\ c >= 3
           /\ \A k \in (c + 1)..Len(trace) : trace[k].ev \notin {"set_data", "update_msg"}
           /\ "fetched_on" \in DOMAIN (IF pc = "loop" THEN Shown ELSE Self).data
    /\ pc = "render" => (Cardinality(BuiltAt) = 1 /\ Self.content # None)
    /\ ShowCompleted =>
           LET content == Content(Shown)
               n == Len(trace)
           IN  /\ Cardinality(BuiltAt) = 1
               /\ \A c \in BuiltAt : c < n - Len(content) - 1
               /\ SubSeq(trace, n - Len(content) - 1, n - 2) =
                      [k \in 1..Len(content) |-> LineEvent(content[k])]
               /\ {k \in 1..n : trace[k].ev = "line"} \subseteq
                      (n - Len(content) - 1)..(n - 2)

\* a show() of a cycling news feed that did not fetch: its lines are those of the
\* build of this show(), from the snapshot of an earlier one
C20_Witness ==
    /\ ShowCompleted
    /\ IsNews(Shown) /\ Shown.config.cycle
    /\ \A k \in 1..Len(trace) : trace[k].ev # "set_data"
    /\ Shown.current_index > 0
    /\ Len(Content(Shown)) > 0
    /\ trace[Len(trace) - 2] = Ev("slown", "")

====
